---- MODULE Spec2Model ----
(***************************************************************************)
(* Model of the deepwork website blocker (blocker.py): the hosts-file      *)
(* region manager, the block / unblock lifecycle and the scheduled unlock. *)
(*                                                                         *)
(* Text is modelled as a sequence of tokens.  A token is one character     *)
(* ("x", "\n", " ", "a", ...) or one indivisible literal of the program    *)
(* (a marker text, "127.0.0.1", "::1").  A line contains a marker exactly  *)
(* when the marker token is one of its tokens.                             *)
(***************************************************************************)
EXTENDS Integers, Sequences, FiniteSets, TLC

(***************************************************************************)
(* Bounds of the model                                                     *)
(***************************************************************************)
\* longest original hosts-file content enumerated by the region specification
MaxLen == 3
\* number of region calls made in one behaviour of the region specification
MaxCalls == 2
\* number of clock advances in one behaviour
MaxTicks == 2
\* number of entry-point invocations by the operating user in one behaviour
MaxRuns == 2
\* connections made to the responder
MaxConns == 2

(***************************************************************************)
(* Literals of RockSolidBlocker.__init__                                   *)
(***************************************************************************)
localhost == "127.0.0.1"
localhost_v6 == "::1"
block_marker_start == "# >>> DEEPWORK BLOCK START - DO NOT EDIT <<<"
block_marker_end == "# >>> DEEPWORK BLOCK END <<<"

NL == "\n"
CR == "\r"
SP == " "

(***************************************************************************)
(* Text helpers                                                            *)
(***************************************************************************)
\* the tokens of s as a set
Toks(s) == {s[i] : i \in 1..Len(s)}

\* number of occurrences of token t in s
Count(s, t) == Cardinality({i \in 1..Len(s) : s[i] = t})

\* Path.read_text(): text mode with universal newlines, "\r\n" and "\r"
\* are read as "\n"
RECURSIVE read_text(_)
read_text(bytes) ==
    IF bytes = <<>> THEN <<>>
    ELSE IF Head(bytes) = CR
         THEN IF Len(bytes) > 1 /\ bytes[2] = NL
              THEN <<NL>> \o read_text(Tail(Tail(bytes)))
              ELSE <<NL>> \o read_text(Tail(bytes))
         ELSE <<Head(bytes)>> \o read_text(Tail(bytes))

\* str.splitlines(): the lines of a text, without their terminators; a
\* final terminator opens no further line, the empty text has no line
RECURSIVE splitlines(_)
splitlines(text) ==
    IF text = <<>> THEN <<>>
    ELSE LET nl == {i \in 1..Len(text) : text[i] = NL}
         IN  IF nl = {} THEN <<text>>
             ELSE LET k == CHOOSE i \in nl : \A j \in nl : i <= j
                  IN  <<SubSeq(text, 1, k - 1)>>
                        \o splitlines(SubSeq(text, k + 1, Len(text)))

\* '\n'.join(lines)
RECURSIVE join(_)
join(lines) ==
    IF lines = <<>> THEN <<>>
    ELSE IF Len(lines) = 1 THEN lines[1]
         ELSE lines[1] \o <<NL>> \o join(Tail(lines))

(***************************************************************************)
(* DomainSet expander (_expand_domains).  A domain is a sequence of        *)
(* characters.                                                             *)
(***************************************************************************)
\* str.lower() on one character
LowerChar(c) ==
    CASE c = "A" -> "a" [] c = "B" -> "b" [] c = "W" -> "w"
      [] c = "S" -> "s" [] c = "M" -> "m" [] c = "H" -> "h" [] c = "D" -> "d"
      [] OTHER -> c

lower(s) == [i \in 1..Len(s) |-> LowerChar(s[i])]

\* characters str.strip() removes at both ends
Whitespace == {SP, NL, CR}

RECURSIVE lstrip(_)
lstrip(s) ==
    IF s # <<>> /\ Head(s) \in Whitespace THEN lstrip(Tail(s)) ELSE s

RECURSIVE rstrip(_)
rstrip(s) ==
    IF s # <<>> /\ s[Len(s)] \in Whitespace
    THEN rstrip(SubSeq(s, 1, Len(s) - 1)) ELSE s

strip(s) == rstrip(lstrip(s))

WwwPrefix == <<"w", "w", "w", ".">>

startswith(s, prefix) ==
    Len(s) >= Len(prefix) /\ SubSeq(s, 1, Len(prefix)) = prefix

\* (a variant that does not lower-case, for comparison)
NormaliseNoLower(domain) == strip(domain)

\* domain.strip().lower()
Normalise(domain) == lower(strip(domain))

\* (a variant that adds the www. form of every domain, for comparison)
ExpandOneAlwaysWww(domain) ==
    LET d == Normalise(domain)
    IN  IF d = <<>> THEN {} ELSE {d, WwwPrefix \o d}

\* what one raw domain adds to the expanded set
ExpandOne(domain) ==
    LET d == Normalise(domain)
    IN  IF d = <<>> THEN {}
        ELSE IF startswith(d, WwwPrefix) THEN {d}
             ELSE {d, WwwPrefix \o d}

expand_domains(domains) == UNION {ExpandOne(d) : d \in domains}

(***************************************************************************)
(* sorted(domains): ascending order of Python strings, by code point       *)
(***************************************************************************)
Code(c) ==
    CASE c = NL  -> 10
      [] c = CR  -> 13
      [] c = SP  -> 32
      [] c = "." -> 46
      [] c = "A" -> 65
      [] c = "B" -> 66
      [] c = "W" -> 87
      [] c = "a" -> 97
      [] c = "b" -> 98
      [] c = "w" -> 119
      [] OTHER   -> 120

RECURSIVE StrLess(_, _)
StrLess(s, t) ==
    IF t = <<>> THEN FALSE
    ELSE IF s = <<>> THEN TRUE
    ELSE IF Code(Head(s)) # Code(Head(t)) THEN Code(Head(s)) < Code(Head(t))
    ELSE StrLess(Tail(s), Tail(t))

RECURSIVE sorted(_)
sorted(S) ==
    IF S = {} THEN <<>>
    ELSE LET m == CHOOSE x \in S : \A y \in S \ {x} : StrLess(x, y)
         IN  <<m>> \o sorted(S \ {m})

(***************************************************************************)
(* Name-resolution override manager: the marked region of the hosts file   *)
(***************************************************************************)
\* the filter loop shared by _add_hosts_entries and _remove_hosts_entries:
\* a line containing the start marker opens a block, a line containing the
\* end marker closes it, both are dropped with every line of an open block
\* (a variant that strips nothing, for comparison)
FilterLoopNoStrip(lines, in_block) == lines

RECURSIVE FilterLoop(_, _)
FilterLoop(lines, in_block) ==
    IF lines = <<>> THEN <<>>
    ELSE LET line == Head(lines)
         IN  IF block_marker_start \in Toks(line)
             THEN FilterLoop(Tail(lines), TRUE)
             ELSE IF block_marker_end \in Toks(line)
             THEN FilterLoop(Tail(lines), FALSE)
             ELSE IF ~in_block
             THEN <<line>> \o FilterLoop(Tail(lines), in_block)
             ELSE FilterLoop(Tail(lines), in_block)

filtered_lines(content) == FilterLoop(splitlines(content), FALSE)

\* (a variant without the IPv6 line, for comparison)
EntryLinesV4Only(domain) == << <<localhost, SP>> \o domain >>

\* the two mapping lines of one domain
EntryLines(domain) ==
    << <<localhost, SP>> \o domain, <<localhost_v6, SP>> \o domain >>

RECURSIVE EntriesOf(_)
EntriesOf(doms) ==
    IF doms = <<>> THEN <<>>
    ELSE EntryLines(Head(doms)) \o EntriesOf(Tail(doms))

\* the lines appended by _add_hosts_entries
RegionLines(domains) ==
    << <<>>, <<block_marker_start>> >> \o EntriesOf(sorted(domains))
       \o << <<block_marker_end>> >>

\* the text _add_hosts_entries writes, from the text it read
AddedContent(content, domains) ==
    join(filtered_lines(content) \o RegionLines(domains)) \o <<NL>>

\* the text _remove_hosts_entries writes, from the text it read
RemovedContent(content) ==
    join(filtered_lines(content)) \o <<NL>>

(***************************************************************************)
(* parse_duration.  A duration is kept in seconds (minutes * 60), so that  *)
(* '30s' is 30 and '1d' is 86400.                                          *)
(***************************************************************************)
Digits == {"0", "1", "2", "3", "4", "5", "6", "7", "8", "9"}

DigitVal(c) ==
    CASE c = "0" -> 0 [] c = "1" -> 1 [] c = "2" -> 2 [] c = "3" -> 3
      [] c = "4" -> 4 [] c = "5" -> 5 [] c = "6" -> 6 [] c = "7" -> 7
      [] c = "8" -> 8 [] c = "9" -> 9

RECURSIVE IntOf(_)
IntOf(ds) ==
    IF ds = <<>> THEN 0
    ELSE IntOf(SubSeq(ds, 1, Len(ds) - 1)) * 10 + DigitVal(ds[Len(ds)])

RECURSIVE Pow10(_)
Pow10(n) == IF n = 0 THEN 1 ELSE 10 * Pow10(n - 1)

AllDigits(ds) == ds # <<>> /\ \A i \in 1..Len(ds) : ds[i] \in Digits

\* seconds per unit: the table units of parse_duration, times 60
UnitSeconds(u) ==
    CASE u = "s" -> 1 [] u = "m" -> 60 [] u = "h" -> 3600 [] u = "d" -> 86400

\* the number part of a duration string: \d+(?:\.\d+)?
IsNumber(n) ==
    LET dots == {i \in 1..Len(n) : n[i] = "."}
    IN  \/ AllDigits(n)
        \/ /\ Cardinality(dots) = 1
           /\ LET k == CHOOSE i \in dots : TRUE
              IN  AllDigits(SubSeq(n, 1, k - 1))
                    /\ AllDigits(SubSeq(n, k + 1, Len(n)))

\* float(number) * unit, in seconds
NumberTimes(n, unit) ==
    LET dots == {i \in 1..Len(n) : n[i] = "."}
    IN  IF dots = {} THEN IntOf(n) * unit
        ELSE LET k    == CHOOSE i \in dots : TRUE
                 frac == SubSeq(n, k + 1, Len(n))
             IN  IntOf(SubSeq(n, 1, k - 1)) * unit
                   + (IntOf(frac) * unit) \div Pow10(Len(frac))

\* the split of a lowered duration string into number and optional unit
UnitOf(t) ==
    IF t # <<>> /\ t[Len(t)] \in {"s", "m", "h", "d"} THEN t[Len(t)] ELSE ""

NumberOf(t) == IF UnitOf(t) = "" THEN t ELSE SubSeq(t, 1, Len(t) - 1)

\* '$' matches at the end of the string and before one final newline
DollarEnd(t) ==
    IF t # <<>> /\ t[Len(t)] = NL THEN SubSeq(t, 1, Len(t) - 1) ELSE t

\* (a variant with \d* in place of \d+, for comparison)
DurationMatchesNoDigits(time_str) ==
    LET n == NumberOf(DollarEnd(lower(time_str)))
    IN  n = <<>> \/ IsNumber(n)

\* re.match(r'^(\d+(?:\.\d+)?)([smhd])?$', time_str.lower())
DurationMatches(time_str) ==
    IsNumber(NumberOf(DollarEnd(lower(time_str))))

\* parse_duration(time_str), defined when the string matches
parse_duration(time_str) ==
    LET t == DollarEnd(lower(time_str))
    IN  NumberTimes(NumberOf(t),
                    IF UnitOf(t) = "" THEN 60 ELSE UnitSeconds(UnitOf(t)))

(***************************************************************************)
(* load_domains: the lines of the distractions file, stripped, without     *)
(* blank lines and comments                                                *)
(***************************************************************************)
load_domains(file_lines) ==
    {strip(l) : l \in {m \in file_lines : strip(m) # <<>> /\ Head(strip(m)) # "#"}}

(***************************************************************************)
(* Time.  The clock counts seconds.                                        *)
(***************************************************************************)
SecondsPerMinute == 60
SecondsPerDay == 86400

\* the instant at which 'at HH:MM' runs a job registered at call_now, where
\* HH:MM is unlock_time.strftime("%H:%M"): the next start of that minute of
\* the day that lies after call_now
AtFireTime(call_now, unlock_time) ==
    LET tod  == (unlock_time % SecondsPerDay) - (unlock_time % SecondsPerMinute)
        cand == (call_now - (call_now % SecondsPerDay)) + tod
    IN  IF cand > call_now THEN cand ELSE cand + SecondsPerDay

(***************************************************************************)
(* State                                                                   *)
(***************************************************************************)
VARIABLES
    host,       \* the machine: platform.system() and the tools installed
    hosts,      \* content of /etc/hosts
    immutable,  \* the immutable flag of /etc/hosts (chattr +i)
    sidecar,    \* the .unlock_time file: <<>> when absent, else <<time>>
    tickets,    \* scheduled unlock jobs not yet run
    responder,  \* the deepwork-blockpage service unit is active
    iptables,   \* number of OUTPUT rules tagged deepwork-block
    now,        \* the clock, in seconds
    ticks,      \* number of clock advances so far
    proc,       \* the running invocation of blocker.py of each process
    runs,       \* number of invocations by the operating user so far
    hist,       \* the last two completed invocations, most recent first;
                \* of the earlier one only what Earlier keeps
    log,        \* the calls made by the specifications of single
                \* operations, in order
    server      \* the block_server.py process: its threads and connections

vars == <<host, hosts, immutable, sidecar, tickets, responder, iptables,
          now, ticks, proc, runs, hist, log, server>>

\* block_server.py has not been started
NotStarted ==
    [main     |-> "init",
     stop     |-> FALSE,
     listener |-> [l \in {"http", "https"} |-> "init"],
     conns    |-> <<>>,
     out      |-> {}]

\* the operating user's shell, and the job started by the scheduler
Procs == {"cli", "job"}

\* the machines considered
Hosts ==
    { [system |-> "Linux",  chattr |-> TRUE,  systemd |-> TRUE,  at |-> TRUE],
      [system |-> "Linux",  chattr |-> FALSE, systemd |-> TRUE,  at |-> TRUE],
      [system |-> "Linux",  chattr |-> TRUE,  systemd |-> FALSE, at |-> TRUE],
      [system |-> "Linux",  chattr |-> TRUE,  systemd |-> FALSE, at |-> FALSE],
      [system |-> "Darwin", chattr |-> FALSE, systemd |-> FALSE, at |-> FALSE] }

\* original contents of /etc/hosts considered by the lifecycle
OrigContents ==
    { <<"x", NL>>,
      <<"x">> }

\* command lines of blocker.py tried by the operating user: --unlock, the
\* lines of the distractions file (-f), the duration string (-t),
\* --no-block-page, and the effective user id of the caller
Invocations ==
    { [unlock |-> TRUE,  file |-> {}, time |-> <<>>,
       no_block_page |-> FALSE, euid |-> 0],
      [unlock |-> TRUE,  file |-> {}, time |-> <<>>,
       no_block_page |-> FALSE, euid |-> 1000],
      [unlock |-> FALSE, file |-> {<<"a">>}, time |-> <<"3", "0", "s">>,
       no_block_page |-> FALSE, euid |-> 0],
      [unlock |-> FALSE, file |-> {<<"B">>, <<"w", "w", "w", ".", "a", SP>>},
       time |-> <<"1", "D">>, no_block_page |-> TRUE, euid |-> 0],
      [unlock |-> FALSE, file |-> {<<"a">>}, time |-> <<"3", "0", "s">>,
       no_block_page |-> FALSE, euid |-> 1000],
      [unlock |-> FALSE, file |-> {<<"a">>}, time |-> <<"a", "b", "c">>,
       no_block_page |-> FALSE, euid |-> 0],
      [unlock |-> FALSE, file |-> {<<"#", "a">>, <<SP>>},
       time |-> <<"3", "0", "s">>, no_block_page |-> FALSE, euid |-> 0] }

\* clock advances, in seconds
Jumps == {30}

\* what the state of the machine an invocation can change looks like
Snapshot ==
    [hosts |-> hosts, immutable |-> immutable, sidecar |-> sidecar,
     tickets |-> tickets, responder |-> responder, iptables |-> iptables,
     now |-> now]

IdleProc(snapshot) ==
    [pc |-> "idle", cmd |-> "none", euid |-> 0, raw |-> {}, domains |-> {},
     dur |-> 0, serve |-> FALSE, content |-> <<>>, end_time |-> 0,
     unlock_time |-> 0, result |-> "none", pre |-> snapshot]

\* the record of a process whose invocation is no longer the latest
Exited ==
    IdleProc([hosts |-> <<>>, immutable |-> FALSE, sidecar |-> <<>>,
              tickets |-> {}, responder |-> FALSE, iptables |-> 0,
              now |-> 0])

Idle == \A p \in Procs : proc[p].pc = "idle"

\* the marked region is in the file: the test of focus.get_block_status
is_active(content) == block_marker_start \in Toks(content)

Init ==
    /\ host \in Hosts
    /\ hosts \in OrigContents
    /\ immutable = FALSE
    /\ sidecar = <<>>
    /\ tickets = {}
    /\ responder = FALSE
    /\ iptables \in {0, 1}
    /\ now = 0
    /\ ticks = 0
    /\ proc = [p \in Procs |-> IdleProc(Snapshot)]
    /\ runs = 0
    /\ hist = <<>>
    /\ log = <<>>
    /\ server = NotStarted

(***************************************************************************)
(* Outcomes of the external commands.  A tool that is not installed makes  *)
(* subprocess raise FileNotFoundError ("missing").  chattr, when it is     *)
(* installed, changes the flag or exits with an error; the other tools     *)
(* work when they are installed.                                           *)
(***************************************************************************)
ChattrOutcomes == IF host.chattr THEN {"ok", "fail"} ELSE {"missing"}

ToolOutcomes(installed) == IF installed THEN {"ok"} ELSE {"missing"}

\* systemd-run refuses a unit name that is still loaded
SystemdRunOutcomes(unit_loaded) ==
    IF ~host.systemd THEN {"missing"}
    ELSE IF unit_loaded THEN {"fail"}
    ELSE {"ok"}

\* a timer registered by 'systemd-run --unit deepwork-unblock' is pending
TimerLoaded == \E t \in tickets : t.mech = "systemd"

(***************************************************************************)
(* Bookkeeping of invocations                                              *)
(***************************************************************************)
\* what is kept of an invocation once a later one has ended: the command,
\* whether it returned, and for a block() that returned the file content
\* it started from and the unlock time it saved
Earlier(rec) ==
    [cmd    |-> rec.cmd,
     result |-> IF rec.result = "ok" THEN "ok" ELSE "failed",
     hosts  |-> IF rec.cmd = "block" /\ rec.result = "ok"
                THEN rec.hosts ELSE <<>>,
     unlock_time |-> IF rec.cmd = "block" /\ rec.result = "ok"
                     THEN rec.unlock_time ELSE 0]

Push(h, rec) ==
    IF h = <<>> THEN <<rec>> ELSE <<rec, Earlier(h[1])>>

\* process p moves to the next statement
Goto(p, label) ==
    /\ proc' = [proc EXCEPT ![p].pc = label]
    /\ hist' = hist

\* the invocation of process p ends: normally ("ok") or with the exception
\* that main() catches before sys.exit(1)
Finish(p, fields, result) ==
    LET rec == [fields EXCEPT !.pc = "idle", !.result = result]
    IN  /\ proc' = [proc EXCEPT ![p] = rec]
        /\ hist' = Push(hist, [who |-> p, cmd |-> rec.cmd, result |-> result,
                                hosts |-> rec.pre.hosts,
                                unlock_time |-> rec.unlock_time])

\* time passes between invocations and while the resolver is restarted
Tick ==
    /\ ticks < MaxTicks
    /\ \A p \in Procs : proc[p].pc \in {"idle", "b_dns"}
    /\ \E j \in Jumps : now' = now + j
    /\ ticks' = ticks + 1
    /\ UNCHANGED <<server, host, hosts, immutable, sidecar, tickets, responder,
                   iptables, proc, runs, hist, log>>

(***************************************************************************)
(* main(): the entry point of blocker.py                                   *)
(***************************************************************************)
\* the record of a fresh invocation
NewRun(cmd, euid) ==
    [IdleProc(Snapshot) EXCEPT !.pc = "main", !.cmd = cmd, !.euid = euid]

\* RockSolidBlocker.__init__: only the name of the platform is examined
PlatformSupported == host.system = "Linux"

\* the operating user runs 'blocker.py --unlock'
MainUnlock ==
    /\ Idle /\ runs < MaxRuns
    /\ \E args \in Invocations :
         /\ args.unlock
         /\ LET run == NewRun("unlock", args.euid)
            IN  IF PlatformSupported
                THEN /\ proc' = [proc EXCEPT
                                   !["cli"] = [run EXCEPT !.pc = "u_euid"],
                                   !["job"] = Exited]
                     /\ hist' = hist
                ELSE Finish("cli", run, "SystemError")
    /\ runs' = runs + 1
    /\ UNCHANGED <<server, host, hosts, immutable, sidecar, tickets, responder,
                   iptables, now, ticks, log>>

\* the operating user runs 'blocker.py -f file -t time [--no-block-page]'
MainBlock ==
    /\ Idle /\ runs < MaxRuns
    /\ \E args \in Invocations :
         /\ ~args.unlock
         /\ LET run     == NewRun("block", args.euid)
                domains == load_domains(args.file)
            IN  IF ~PlatformSupported
                THEN Finish("cli", run, "SystemError")
                ELSE IF domains = {}
                THEN Finish("cli", run, "NoDomains")
                ELSE IF ~DurationMatches(args.time)
                THEN Finish("cli", run, "ValueError")
                ELSE /\ proc' = [proc EXCEPT !["cli"] =
                                   [run EXCEPT
                                      !.pc = "b_euid",
                                      !.raw = domains,
                                      !.dur = parse_duration(args.time),
                                      !.serve = ~args.no_block_page],
                                   !["job"] = Exited]
                     /\ hist' = hist
    /\ runs' = runs + 1
    /\ UNCHANGED <<server, host, hosts, immutable, sidecar, tickets, responder,
                   iptables, now, ticks, log>>

\* a scheduled job comes due and runs 'python3 blocker.py --unlock' as root
Fire ==
    /\ Idle
    /\ \E t \in tickets :
         /\ t.at <= now
         /\ tickets' = tickets \ {t}
         /\ proc' = [proc EXCEPT
                       !["job"] = [NewRun("unlock", 0) EXCEPT !.pc = "u_euid"],
                       !["cli"] = Exited]
    /\ UNCHANGED <<server, host, hosts, immutable, sidecar, responder, iptables,
                   now, ticks, runs, hist, log>>

(***************************************************************************)
(* Steps shared by block() and unblock()                                   *)
(***************************************************************************)
\* (a variant without the check, for comparison)
HasPrivilegeUnchecked(euid) == TRUE

\* os.geteuid() != 0 raises PermissionError
HasPrivilege(euid) == euid = 0

\* _remove_immutable_flag: chattr -i with check=False, every failure ignored
RemoveImmutableFlag(p, here, next) ==
    /\ proc[p].pc = here
    /\ \E r \in ChattrOutcomes :
         immutable' = IF r = "ok" THEN FALSE ELSE immutable
    /\ Goto(p, next)
    /\ UNCHANGED <<server, host, hosts, sidecar, tickets, responder, iptables,
                   now, ticks, runs, log>>

\* content = self.hosts_path.read_text()
ReadHosts(p, here, next) ==
    /\ proc[p].pc = here
    /\ proc' = [proc EXCEPT ![p].pc = next, ![p].content = read_text(hosts)]
    /\ UNCHANGED <<server, host, hosts, immutable, sidecar, tickets, responder,
                   iptables, now, ticks, runs, hist, log>>

\* (a variant that ignores the failed write and goes on, for comparison)
WriteHostsIgnoringError(p, here, next, text) ==
    /\ proc[p].pc = here
    /\ hosts' = IF immutable THEN hosts ELSE text
    /\ Goto(p, next)
    /\ UNCHANGED <<server, host, immutable, sidecar, tickets, responder, iptables,
                   now, ticks, runs, log>>

\* self.hosts_path.write_text(text): opening an immutable file for writing
\* raises PermissionError, which ends the invocation
WriteHosts(p, here, next, text) ==
    /\ proc[p].pc = here
    /\ IF immutable
       THEN /\ Finish(p, proc[p], "PermissionError")
            /\ hosts' = hosts
       ELSE /\ hosts' = text
            /\ Goto(p, next)
    /\ UNCHANGED <<server, host, immutable, sidecar, tickets, responder, iptables,
                   now, ticks, runs, log>>

\* _flush_dns: resolvectl and systemctl, every failure ignored
FlushDns(p, here, next) ==
    /\ proc[p].pc = here
    /\ Goto(p, next)
    /\ UNCHANGED <<server, host, hosts, immutable, sidecar, tickets, responder,
                   iptables, now, ticks, runs, log>>

\* BlockPageServer.stop: systemctl stop with check=False, failures ignored
StopResponder(p, here) ==
    /\ proc[p].pc = here
    /\ \E r \in ToolOutcomes(host.systemd) :
         responder' = IF r = "ok" THEN FALSE ELSE responder
    /\ UNCHANGED <<server, host, hosts, immutable, sidecar, tickets, iptables,
                   now, ticks, runs, log>>

(***************************************************************************)
(* RockSolidBlocker.block                                                  *)
(***************************************************************************)
\* the privilege check, then _expand_domains and end_time
BlockEnter(p) ==
    /\ proc[p].pc = "b_euid"
    /\ IF ~HasPrivilege(proc[p].euid)
       THEN Finish(p, proc[p], "PermissionError")
       ELSE /\ proc' = [proc EXCEPT
                          ![p].pc = "b_flag",
                          ![p].domains = expand_domains(proc[p].raw),
                          ![p].end_time = now + proc[p].dur]
            /\ hist' = hist
    /\ UNCHANGED <<server, host, hosts, immutable, sidecar, tickets, responder,
                   iptables, now, ticks, runs, log>>

\* _add_hosts_entries, statement by statement
BlockUnlockFile(p) == RemoveImmutableFlag(p, "b_flag", "b_read")

BlockRead(p) == ReadHosts(p, "b_read", "b_write")

BlockWrite(p) ==
    WriteHosts(p, "b_write", "b_dns",
               AddedContent(proc[p].content, proc[p].domains))

BlockFlushDns(p) == FlushDns(p, "b_dns", "b_save")

\* _schedule_unlock: unlock_time and _save_unlock_time
BlockSaveUnlockTime(p) ==
    /\ proc[p].pc = "b_save"
    /\ LET unlock_time == now + proc[p].dur
       IN  /\ sidecar' = <<unlock_time>>
           /\ proc' = [proc EXCEPT ![p].pc = "b_sysd",
                                   ![p].unlock_time = unlock_time]
    /\ UNCHANGED <<server, host, hosts, immutable, tickets, responder, iptables,
                   now, ticks, runs, hist, log>>

\* _schedule_unlock: systemd-run --on-calendar stamp --unit deepwork-unblock
BlockSystemdRun(p) ==
    /\ proc[p].pc = "b_sysd"
    /\ \E r \in SystemdRunOutcomes(TimerLoaded) :
         IF r = "ok"
         THEN /\ tickets' = tickets \cup
                    {[mech |-> "systemd", at |-> proc[p].unlock_time]}
              /\ Goto(p, "b_lock")
         ELSE /\ tickets' = tickets
              /\ Goto(p, "b_at")
    /\ UNCHANGED <<server, host, hosts, immutable, sidecar, responder, iptables,
                   now, ticks, runs, log>>

\* (a variant in which a missing 'at' ends block(), for comparison)
BlockAtAborting(p) ==
    /\ proc[p].pc = "b_at"
    /\ \E r \in ToolOutcomes(host.at) :
         IF r = "ok"
         THEN /\ tickets' = tickets \cup
                    {[mech |-> "at",
                      at |-> AtFireTime(now, proc[p].unlock_time)]}
              /\ Goto(p, "b_lock")
         ELSE /\ tickets' = tickets
              /\ Finish(p, proc[p], "FileNotFoundError")
    /\ UNCHANGED <<server, host, hosts, immutable, sidecar, responder, iptables,
                   now, ticks, runs, log>>

\* _schedule_unlock: the fallback 'at HH:MM'; a missing tool is logged, the
\* exit status of at is not examined
BlockAt(p) ==
    /\ proc[p].pc = "b_at"
    /\ \E r \in ToolOutcomes(host.at) :
         tickets' = IF r = "ok"
                    THEN tickets \cup
                           {[mech |-> "at",
                             at |-> AtFireTime(now, proc[p].unlock_time)]}
                    ELSE tickets
    /\ Goto(p, "b_lock")
    /\ UNCHANGED <<server, host, hosts, immutable, sidecar, responder, iptables,
                   now, ticks, runs, log>>

\* (a variant that restores the file when chattr +i fails, for comparison)
BlockLockRollingBack(p) ==
    /\ proc[p].pc = "b_lock"
    /\ \E r \in ChattrOutcomes :
         IF r = "ok"
         THEN /\ immutable' = TRUE
              /\ hosts' = hosts
              /\ IF proc[p].serve
                 THEN Goto(p, "b_stop")
                 ELSE Finish(p, proc[p], "ok")
         ELSE /\ immutable' = immutable
              /\ hosts' = proc[p].pre.hosts
              /\ Finish(p, proc[p],
                        IF r = "missing" THEN "FileNotFoundError"
                        ELSE "CalledProcessError")
    /\ UNCHANGED <<server, host, sidecar, tickets, responder, iptables,
                   now, ticks, runs, log>>

\* _set_immutable_flag: chattr +i with check=True; then block() is over
\* unless the block page is served
BlockLock(p) ==
    /\ proc[p].pc = "b_lock"
    /\ \E r \in ChattrOutcomes :
         IF r = "ok"
         THEN /\ immutable' = TRUE
              /\ IF proc[p].serve
                 THEN Goto(p, "b_stop")
                 ELSE Finish(p, proc[p], "ok")
         ELSE /\ immutable' = immutable
              /\ Finish(p, proc[p],
                        IF r = "missing" THEN "FileNotFoundError"
                        ELSE "CalledProcessError")
    /\ UNCHANGED <<server, host, hosts, sidecar, tickets, responder, iptables,
                   now, ticks, runs, log>>

\* (a variant of start that does not stop first, for comparison)
BlockStopResponderSkipped(p) ==
    /\ proc[p].pc = "b_stop"
    /\ Goto(p, "b_start")
    /\ UNCHANGED <<server, host, hosts, immutable, sidecar, tickets,
                   responder, iptables, now, ticks, runs, log>>

\* BlockPageServer.start: stop any existing instance first
BlockStopResponder(p) ==
    /\ StopResponder(p, "b_stop")
    /\ Goto(p, "b_start")

\* BlockPageServer.start: systemd-run --unit deepwork-blockpage; a failure
\* is logged
BlockStartResponder(p) ==
    /\ proc[p].pc = "b_start"
    /\ \E r \in SystemdRunOutcomes(responder) :
         responder' = IF r = "ok" THEN TRUE ELSE responder
    /\ Finish(p, proc[p], "ok")
    /\ UNCHANGED <<server, host, hosts, immutable, sidecar, tickets, iptables,
                   now, ticks, runs, log>>

(***************************************************************************)
(* RockSolidBlocker.unblock                                                *)
(***************************************************************************)
UnblockEnter(p) ==
    /\ proc[p].pc = "u_euid"
    /\ IF ~HasPrivilege(proc[p].euid)
       THEN Finish(p, proc[p], "PermissionError")
       ELSE Goto(p, "u_flag")
    /\ UNCHANGED <<server, host, hosts, immutable, sidecar, tickets, responder,
                   iptables, now, ticks, runs, log>>

\* _remove_hosts_entries, statement by statement
UnblockUnlockFile(p) == RemoveImmutableFlag(p, "u_flag", "u_read")

UnblockRead(p) == ReadHosts(p, "u_read", "u_write")

UnblockWrite(p) ==
    WriteHosts(p, "u_write", "u_ipt", RemovedContent(proc[p].content))

\* _remove_iptables_rules: list the rules and delete the tagged ones; every
\* exception is logged
UnblockIptables(p) ==
    /\ proc[p].pc = "u_ipt"
    /\ \E r \in ToolOutcomes(TRUE) :
         iptables' = IF r = "ok" THEN 0 ELSE iptables
    /\ Goto(p, "u_dns")
    /\ UNCHANGED <<server, host, hosts, immutable, sidecar, tickets, responder,
                   now, ticks, runs, log>>

UnblockFlushDns(p) == FlushDns(p, "u_dns", "u_stop")

UnblockStopResponder(p) ==
    /\ StopResponder(p, "u_stop")
    /\ Goto(p, "u_clear")

\* _clear_unlock_time: unlink the file if it exists; unblock() is over
UnblockClearUnlockTime(p) ==
    /\ proc[p].pc = "u_clear"
    /\ sidecar' = <<>>
    /\ Finish(p, proc[p], "ok")
    /\ UNCHANGED <<server, host, hosts, immutable, tickets, responder, iptables,
                   now, ticks, runs, log>>

BlockStep(p) ==
    \/ BlockEnter(p) \/ BlockUnlockFile(p) \/ BlockRead(p) \/ BlockWrite(p)
    \/ BlockFlushDns(p) \/ BlockSaveUnlockTime(p) \/ BlockSystemdRun(p)
    \/ BlockAt(p) \/ BlockLock(p) \/ BlockStopResponder(p)
    \/ BlockStartResponder(p)

Step(p) ==
    \/ BlockStep(p)
    \/ UnblockEnter(p) \/ UnblockUnlockFile(p) \/ UnblockRead(p)
    \/ UnblockWrite(p) \/ UnblockIptables(p) \/ UnblockFlushDns(p)
    \/ UnblockStopResponder(p) \/ UnblockClearUnlockTime(p)

Next ==
    \/ MainUnlock
    \/ MainBlock
    \/ Fire
    \/ Tick
    \/ \E p \in Procs : Step(p)

Spec == Init /\ [][Next]_vars

(***************************************************************************)
(* The scheduler next to the operating user: a scheduled job runs          *)
(* 'blocker.py --unlock' in its own process whenever it comes due, also    *)
(* while a block() of the operating user is running, and the operating     *)
(* user starts a block() whether or not a job is running.  Nothing in      *)
(* blocker.py takes a lock, so the statements of the two processes         *)
(* interleave freely.                                                      *)
(***************************************************************************)
RaceInit ==
    /\ host \in {h \in Hosts : h.chattr}
    /\ hosts \in OrigContents
    /\ immutable = FALSE
    /\ sidecar = <<>>
    /\ tickets = {}
    /\ responder = FALSE
    /\ iptables = 0
    /\ now = 0
    /\ ticks = 0
    /\ proc = [p \in Procs |-> IdleProc(Snapshot)]
    /\ runs = 0
    /\ hist = <<>>
    /\ log = <<>>
    /\ server = NotStarted

\* the operating user runs 'sudo blocker.py -f file -t 30s', the file
\* holding the one domain "a"
RaceBlock ==
    /\ proc["cli"].pc = "idle" /\ runs < MaxRuns
    /\ LET time_str == <<"3", "0", "s">>
       IN  proc' = [proc EXCEPT !["cli"] =
                      [NewRun("block", 0) EXCEPT
                         !.pc = "b_euid",
                         !.raw = load_domains({<<"a">>}),
                         !.dur = parse_duration(time_str),
                         !.serve = TRUE]]
    /\ runs' = runs + 1
    /\ UNCHANGED <<server, host, hosts, immutable, sidecar, tickets, responder,
                   iptables, now, ticks, hist, log>>

\* a scheduled job comes due and runs 'python3 blocker.py --unlock' as root
RaceFire ==
    /\ proc["job"].pc = "idle"
    /\ \E t \in tickets :
         /\ t.at <= now
         /\ tickets' = tickets \ {t}
         /\ proc' = [proc EXCEPT
                       !["job"] = [NewRun("unlock", 0) EXCEPT !.pc = "u_euid"]]
    /\ UNCHANGED <<server, host, hosts, immutable, sidecar, responder, iptables,
                   now, ticks, runs, hist, log>>

RaceNext ==
    \/ RaceBlock
    \/ RaceFire
    \/ Tick
    \/ \E p \in Procs : Step(p)

RaceSpec == RaceInit /\ [][RaceNext]_vars

(***************************************************************************)
(* The region operations on their own: _add_hosts_entries and              *)
(* _remove_hosts_entries called on every small content of the hosts file,  *)
(* each call run from its first to its last statement.                     *)
(***************************************************************************)
FileAlphabet == {"x", NL, CR, block_marker_start, block_marker_end}

Contents == UNION {[1..n -> FileAlphabet] : n \in 0..MaxLen}

\* expanded domain sets handed to _add_hosts_entries
DomainSets ==
    { {},
      {<<"a">>, <<"w", "w", "w", ".", "a">>},
      {<<"b">>, <<"a">>} }

RegionInit ==
    /\ host \in {h \in Hosts : h.chattr /\ h.systemd /\ h.at}
    /\ hosts \in Contents
    /\ immutable = FALSE
    /\ sidecar = <<>>
    /\ tickets = {}
    /\ responder = FALSE
    /\ iptables = 0
    /\ now = 0
    /\ ticks = 0
    /\ proc = [p \in Procs |-> IdleProc(Snapshot)]
    /\ runs = 0
    /\ hist = <<>>
    /\ log = <<>>
    /\ server = NotStarted

\* a call of fn: the content before it, the content after it, and whether
\* it returned (ok) or raised
Call(fn, domains, ok) ==
    [fn |-> fn, domains |-> domains, pre |-> hosts, post |-> hosts', ok |-> ok]

\* _add_hosts_entries(domains)
AddHostsEntries ==
    /\ Len(log) < MaxCalls
    /\ \E domains \in DomainSets, r \in ChattrOutcomes :
         /\ immutable' = IF r = "ok" THEN FALSE ELSE immutable
         /\ hosts' = IF immutable' THEN hosts
                     ELSE AddedContent(read_text(hosts), domains)
         /\ log' = Append(log, Call("add", domains, ~immutable'))
    /\ UNCHANGED <<server, host, sidecar, tickets, responder, iptables, now, ticks,
                   proc, runs, hist>>

\* _remove_hosts_entries()
RemoveHostsEntries ==
    /\ Len(log) < MaxCalls
    /\ \E r \in ChattrOutcomes :
         /\ immutable' = IF r = "ok" THEN FALSE ELSE immutable
         /\ hosts' = IF immutable' THEN hosts
                     ELSE RemovedContent(read_text(hosts))
         /\ log' = Append(log, Call("remove", {}, ~immutable'))
    /\ UNCHANGED <<server, host, sidecar, tickets, responder, iptables, now, ticks,
                   proc, runs, hist>>

\* _set_immutable_flag(), called as block() calls it: after the region has
\* been written
SetImmutableFlag ==
    /\ log # <<>> /\ log[Len(log)].fn = "add" /\ log[Len(log)].ok
    /\ ~immutable
    /\ \E r \in ChattrOutcomes : immutable' = (r = "ok")
    /\ UNCHANGED <<server, host, hosts, sidecar, tickets, responder, iptables, now,
                   ticks, proc, runs, hist, log>>

RegionNext ==
    \/ AddHostsEntries
    \/ RemoveHostsEntries
    \/ SetImmutableFlag

RegionSpec == RegionInit /\ [][RegionNext]_vars

(***************************************************************************)
(* The entry point on its own: one run of 'blocker.py -f file -t time' as  *)
(* root, for every duration string over a small alphabet.                  *)
(***************************************************************************)
TimeAlphabet == {"1", "0", ".", "m", "D", "a", NL}

TimeStrings == UNION {[1..n -> TimeAlphabet] : n \in 0..MaxLen}

EntryInit ==
    /\ host \in {h \in Hosts : h.system = "Linux"}
    /\ hosts \in OrigContents
    /\ immutable = FALSE
    /\ sidecar = <<>>
    /\ tickets = {}
    /\ responder = FALSE
    /\ iptables = 0
    /\ now = 0
    /\ ticks = 0
    /\ proc = [p \in Procs |-> IdleProc(Snapshot)]
    /\ runs = 0
    /\ hist = <<>>
    /\ log = <<>>
    /\ server = NotStarted

\* main() for 'blocker.py -f file -t time_str', the file holding the one
\* domain "a": load_domains, then parse_duration, then block()
EntryMain ==
    /\ Idle /\ log = <<>>
    /\ \E time_str \in TimeStrings :
         /\ log' = <<[fn |-> "main", time |-> time_str]>>
         /\ LET run     == NewRun("block", 0)
                domains == load_domains({<<"a">>})
            IN  IF ~DurationMatches(time_str)
                THEN Finish("cli", run, "ValueError")
                ELSE /\ proc' = [proc EXCEPT !["cli"] =
                                   [run EXCEPT
                                      !.pc = "b_euid",
                                      !.raw = domains,
                                      !.dur = parse_duration(time_str),
                                      !.serve = TRUE]]
                     /\ hist' = hist
    /\ runs' = runs + 1
    /\ UNCHANGED <<server, host, hosts, immutable, sidecar, tickets, responder,
                   iptables, now, ticks>>

EntryNext ==
    \/ EntryMain
    \/ \E p \in Procs : BlockStep(p)

EntrySpec == EntryInit /\ [][EntryNext]_vars

(***************************************************************************)
(* The expander on its own: _expand_domains applied to sets of one or two  *)
(* raw strings, and again to its own result.                               *)
(***************************************************************************)
\* the pieces raw domain strings are made of
DomainPieces ==
    { <<"a">>, <<"B">>, <<SP>>, WwwPrefix, <<"W", "w", "w", ".">> }

RECURSIVE Strings(_)
Strings(n) ==
    IF n = 0 THEN {<<>>}
    ELSE Strings(n - 1)
           \cup {s \o piece : s \in Strings(n - 1), piece \in DomainPieces}

RawDomains == Strings(MaxLen)

DomainInputs == {{}} \cup {{d, e} : d \in RawDomains, e \in RawDomains}

ExpandInit ==
    /\ host \in {h \in Hosts : h.chattr /\ h.systemd /\ h.at}
    /\ hosts = <<"x", NL>>
    /\ immutable = FALSE
    /\ sidecar = <<>>
    /\ tickets = {}
    /\ responder = FALSE
    /\ iptables = 0
    /\ now = 0
    /\ ticks = 0
    /\ proc = [p \in Procs |-> IdleProc(Snapshot)]
    /\ runs = 0
    /\ hist = <<>>
    /\ log = <<>>
    /\ server = NotStarted

\* expanded = self._expand_domains(domains)
ExpandDomains ==
    /\ log = <<>>
    /\ \E domains \in DomainInputs :
         log' = <<[fn |-> "expand", domains |-> domains,
                   post |-> expand_domains(domains)]>>
    /\ UNCHANGED <<server, host, hosts, immutable, sidecar, tickets, responder,
                   iptables, now, ticks, proc, runs, hist>>

\* _expand_domains applied to the set the last call returned
ExpandAgain ==
    /\ log # <<>> /\ Len(log) < MaxCalls
    /\ log' = Append(log, [fn |-> "expand", domains |-> log[Len(log)].post,
                           post |-> expand_domains(log[Len(log)].post)])
    /\ UNCHANGED <<server, host, hosts, immutable, sidecar, tickets, responder,
                   iptables, now, ticks, proc, runs, hist>>

ExpandNext ==
    \/ ExpandDomains
    \/ ExpandAgain

ExpandSpec == ExpandInit /\ [][ExpandNext]_vars

(***************************************************************************)
(* The loopback responder (block_server.py): the main thread, the two      *)
(* listener threads, and the connections clients make to them.             *)
(***************************************************************************)
Listeners == {"http", "https"}

Methods == {"GET", "POST", "HEAD", "PUT"}

Paths == {"/", "/x"}

\* HTML_CONTENT
Page == "HTML_CONTENT"

\* a header value is the list of its comma-separated parts
do_GET ==
    [status  |-> 200,
     headers |-> ("Content-Type" :> <<"text/html; charset=utf-8">>)
                 @@ ("Cache-Control" :>
                       <<"no-store", "no-cache", "must-revalidate">>)
                 @@ ("Connection" :> <<"close">>),
     body    |-> Page]

do_POST == do_GET

do_HEAD ==
    [status  |-> 200,
     headers |-> ("Content-Type" :> <<"text/html">>),
     body    |-> ""]

\* a method for which BlockHandler defines no do_ method: the base class
\* BaseHTTPRequestHandler answers send_error(501)
UnsupportedMethod ==
    [status  |-> 501,
     headers |-> ("Content-Type" :> <<"text/html;charset=utf-8">>)
                 @@ ("Connection" :> <<"close">>),
     body    |-> "Unsupported method"]

\* the response of BlockHandler to a request; the path is not examined
Respond(method, path) ==
    CASE method = "GET"  -> do_GET
      [] method = "POST" -> do_POST
      [] method = "HEAD" -> do_HEAD
      [] OTHER           -> UnsupportedMethod

\* ThreadedTCPServer((127.0.0.1, port), BlockHandler): bind and listen
BindOutcomes == {"ok", "PermissionError", "OSError"}

\* a connection a client has made to listener l, waiting to be accepted
NewConn(l) == [via |-> l, stage |-> "queued", request |-> <<>>,
               response |-> <<>>]

\* the connections of listener l that wait to be accepted
Queued(l) ==
    {i \in 1..Len(server.conns) :
        server.conns[i].via = l /\ server.conns[i].stage = "queued"}

ResponderInit ==
    /\ host \in {h \in Hosts : h.chattr /\ h.systemd /\ h.at}
    /\ hosts = <<"x", NL>>
    /\ immutable = FALSE
    /\ sidecar = <<>>
    /\ tickets = {}
    /\ responder = FALSE
    /\ iptables = 0
    /\ now = 0
    /\ ticks = 0
    /\ proc = [p \in Procs |-> IdleProc(Snapshot)]
    /\ runs = 0
    /\ hist = <<>>
    /\ log = <<>>
    /\ server = NotStarted

Others == <<host, hosts, immutable, sidecar, tickets, responder, iptables,
            now, ticks, proc, runs, hist, log>>

\* what the process prints for listener l: that it runs, or why it does not
Running(l) ==
    IF l = "http" THEN "HTTP server running" ELSE "HTTPS server running"

BindMessage(l, r) ==
    CASE r = "ok" -> Running(l)
      [] r = "PermissionError" ->
           IF l = "http" THEN "Cannot bind to port 80 (permission denied)"
           ELSE "Cannot bind to port 443 (permission denied)"
      [] r = "SSLError" -> "SSL error"
      [] r = "OSError" ->
           IF l = "http" THEN "HTTP server error" ELSE "HTTPS server error"

Skipping == "Skipping HTTPS server (no certificate)"

\* generate_self_signed_cert: the pair of files exists, or openssl makes
\* it, or openssl fails or is not installed and the function returns False
CertOutcomes == {"exists", "generated", "failed"}

\* main(): install the signal handlers, generate the certificate if it is
\* missing, start the two listener threads
ServerMain ==
    /\ server.main = "init"
    /\ \E cert \in CertOutcomes :
         server' = [server EXCEPT
                      !.main = "running",
                      !.listener = [l \in Listeners |->
                                      IF l = "https" /\ cert = "failed"
                                      THEN "nocert" ELSE "starting"],
                      !.out = {"Starting DeepWork block page servers..."}]
    /\ UNCHANGED Others

\* (a variant in which a failure to bind ends the process, for comparison)
RunHttpServerExiting ==
    /\ server.main = "running" /\ server.listener["http"] = "starting"
    /\ \E r \in BindOutcomes :
         server' = IF r = "ok"
                   THEN [server EXCEPT !.listener["http"] = "serving",
                                       !.out = @ \cup {BindMessage("http", r)}]
                   ELSE [server EXCEPT
                           !.main = "exited",
                           !.listener = [l \in Listeners |->
                                           IF l = "http" THEN "failed"
                                           ELSE "stopped"],
                           !.out = @ \cup {BindMessage("http", r)}]
    /\ UNCHANGED Others

\* run_http_server: a failure to bind is printed and the thread returns
RunHttpServer ==
    /\ server.main = "running" /\ server.listener["http"] = "starting"
    /\ \E r \in BindOutcomes :
         server' = [server EXCEPT
                      !.listener["http"] =
                          IF r = "ok" THEN "serving" ELSE "failed",
                      !.out = @ \cup {BindMessage("http", r)}]
    /\ UNCHANGED Others

\* run_https_server: without certificate, generate_self_signed_cert is
\* tried again and the thread returns when it fails; a failure to bind, to
\* load the certificate or to wrap the socket is printed and the thread
\* returns
RunHttpsServer ==
    /\ server.main = "running"
    /\ server.listener["https"] \in {"starting", "nocert"}
    /\ \E cert \in IF server.listener["https"] = "nocert"
                    THEN {"generated", "failed"} ELSE {"exists"},
          r \in BindOutcomes \cup {"SSLError"} :
         server' = IF cert = "failed"
                   THEN [server EXCEPT !.listener["https"] = "failed",
                                       !.out = @ \cup {Skipping}]
                   ELSE [server EXCEPT
                           !.listener["https"] =
                               IF r = "ok" THEN "serving" ELSE "failed",
                           !.out = @ \cup {BindMessage("https", r)}]
    /\ UNCHANGED Others

\* a client connects to a listening socket; the kernel queues the
\* connection until the listener thread accepts it
Connect ==
    /\ server.main = "running" /\ Len(server.conns) < MaxConns
    /\ \E l \in Listeners :
         /\ server.listener[l] \in {"serving", "handshake"}
         /\ server' = [server EXCEPT !.conns = Append(@, NewConn(l))]
    /\ UNCHANGED Others

\* serve_forever of the plaintext listener: accept() and process_request,
\* which starts a thread for the connection
AcceptHttp ==
    /\ server.main = "running" /\ server.listener["http"] = "serving"
    /\ Queued("http") # {}
    /\ LET i == CHOOSE k \in Queued("http") :
                    \A j \in Queued("http") : k <= j
       IN  server' = [server EXCEPT !.conns[i].stage = "worker"]
    /\ UNCHANGED Others

\* serve_forever of the encrypted listener: accept() on the wrapped
\* listening socket starts the TLS handshake with the client in the
\* listener thread, before process_request
AcceptHttps ==
    /\ server.main = "running" /\ server.listener["https"] = "serving"
    /\ Queued("https") # {}
    /\ LET i == CHOOSE k \in Queued("https") :
                    \A j \in Queued("https") : k <= j
       IN  server' = [server EXCEPT !.conns[i].stage = "handshake",
                                    !.listener["https"] = "handshake"]
    /\ UNCHANGED Others

\* the client finishes the handshake, or breaks it off: accept() returns
\* and the connection gets its thread, or raises OSError and the
\* connection is dropped; the listener thread goes back to its loop
Handshake ==
    /\ server.main = "running"
    /\ \E i \in 1..Len(server.conns), ok \in BOOLEAN :
         /\ server.conns[i].stage = "handshake"
         /\ server' = [server EXCEPT
                         !.conns[i].stage = IF ok THEN "worker" ELSE "closed",
                         !.listener["https"] = "serving"]
    /\ UNCHANGED Others

\* the client sends its request
SendRequest ==
    /\ server.main = "running"
    /\ \E i \in 1..Len(server.conns), method \in Methods, path \in Paths :
         /\ server.conns[i].stage = "worker"
         /\ server.conns[i].request = <<>>
         /\ server' = [server EXCEPT
                         !.conns[i].request =
                             <<[method |-> method, path |-> path]>>]
    /\ UNCHANGED Others

\* the thread of the connection: BlockHandler answers the request and the
\* connection is closed
HandleRequest ==
    /\ server.main = "running"
    /\ \E i \in 1..Len(server.conns) :
         /\ server.conns[i].stage = "worker"
         /\ server.conns[i].request # <<>>
         /\ LET req == server.conns[i].request[1]
            IN  server' = [server EXCEPT
                            !.conns[i].stage = "done",
                            !.conns[i].response =
                                <<Respond(req.method, req.path)>>]
    /\ UNCHANGED Others

\* SIGINT or SIGTERM is sent to the process: before main() has installed
\* signal_handler the signal ends the process at once, afterwards the
\* handler is run by the main thread
StopSignal ==
    /\ server.main \in {"init", "running"} /\ ~server.stop
    /\ server' = [server EXCEPT
                    !.stop = TRUE,
                    !.main = IF server.main = "init" THEN "exited" ELSE @]
    /\ UNCHANGED Others

\* (a variant of the handler that prints and returns, for comparison)
signal_handler_returning ==
    /\ server.main = "running" /\ server.stop
    /\ "Shutting down block servers..." \notin server.out
    /\ server' = [server EXCEPT
                    !.out = @ \cup {"Shutting down block servers..."}]
    /\ UNCHANGED Others

\* signal_handler: print and sys.exit(0) in the main thread, which is in
\* the loop of joins; the daemon threads end with the process
signal_handler ==
    /\ server.main = "running" /\ server.stop
    /\ server' = [server EXCEPT
                    !.main = "exited",
                    !.listener = [l \in Listeners |-> "stopped"],
                    !.conns = [i \in 1..Len(server.conns) |->
                                 IF server.conns[i].stage = "done"
                                 THEN server.conns[i]
                                 ELSE [server.conns[i] EXCEPT
                                         !.stage = "closed"]],
                    !.out = @ \cup {"Shutting down block servers..."}]
    /\ UNCHANGED Others

ResponderNext ==
    \/ ServerMain
    \/ RunHttpServer
    \/ RunHttpsServer
    \/ Connect
    \/ AcceptHttp
    \/ AcceptHttps
    \/ Handshake
    \/ SendRequest
    \/ HandleRequest
    \/ StopSignal
    \/ signal_handler

ResponderSpec == ResponderInit /\ [][ResponderNext]_vars

\* the main thread runs the handler of a signal that has been delivered
ResponderLiveSpec == ResponderSpec /\ WF_vars(signal_handler)

(***************************************************************************)
(* Properties of the region operations                                     *)
(***************************************************************************)
\* no line of the content contains a marker
NoMarker(content) ==
    block_marker_start \notin Toks(content)
        /\ block_marker_end \notin Toks(content)

\* the mapping lines of a set of domains, in any order
MappingLines(domains) ==
    {<<localhost, SP>> \o d : d \in domains}
        \cup {<<localhost_v6, SP>> \o d : d \in domains}

\* the lines of the content are: lines without a marker, one start marker
\* line, the lines of body, one end marker line, lines without a marker
OneRegionWithBody(content, body) ==
    LET ls == splitlines(content)
        s  == {i \in 1..Len(ls) : block_marker_start \in Toks(ls[i])}
        e  == {i \in 1..Len(ls) : block_marker_end \in Toks(ls[i])}
    IN  /\ Count(content, block_marker_start) = 1
        /\ Count(content, block_marker_end) = 1
        /\ \E i \in s, j \in e :
             /\ i < j
             /\ ls[i] = <<block_marker_start>>
             /\ ls[j] = <<block_marker_end>>
             /\ Toks(SubSeq(ls, i + 1, j - 1)) = body
             /\ j - i - 1 = Cardinality(body)

\* C4: for every original content without a marker line and every domain
\* set, _add_hosts_entries followed by _remove_hosts_entries leaves the
\* file byte-identical to the original content.
C4_ApplyThenRemoveRestores ==
    \A i \in 1..(Len(log) - 1) :
        ( /\ log[i].fn = "add" /\ log[i].ok
          /\ log[i + 1].fn = "remove" /\ log[i + 1].ok
          /\ NoMarker(log[i].pre) )
        => log[i + 1].post = log[i].pre

\* the call the region specification made last
LastCall == log[Len(log)]

\* C5: after every _add_hosts_entries that returned, whatever calls came
\* before it, the file holds exactly one start marker and one end marker,
\* and the lines between them are the mapping lines of the domains of this
\* call and no others.
C5_OneRegionOfLastCall ==
    (log # <<>> /\ LastCall.fn = "add" /\ LastCall.ok)
    => OneRegionWithBody(LastCall.post, MappingLines(LastCall.domains))

\* C5 witness: two calls in a row returned, and the first had a domain the
\* second did not have
C5_Witness ==
    /\ Len(log) = 2
    /\ log[1].fn = "add" /\ log[1].ok
    /\ log[2].fn = "add" /\ log[2].ok
    /\ log[1].domains \ log[2].domains # {}
    /\ log[2].domains # {}

\* C6: _remove_hosts_entries on a file without a marked region returns and
\* leaves the content as it was, for every such content.
C6_RemoveWithoutRegionIsNoOp ==
    \A i \in 1..Len(log) :
        (log[i].fn = "remove" /\ NoMarker(log[i].pre))
        => (log[i].ok /\ log[i].post = log[i].pre)

\* the lines that lie outside the marked region when the region is matched
\* by exact marker lines: every line but the exact marker lines and the
\* lines between an exact start marker line and the next exact end marker
\* line after it
RECURSIVE OutsideExactRegion(_)
OutsideExactRegion(lines) ==
    IF lines = <<>> THEN <<>>
    ELSE LET ends == {k \in 2..Len(lines) : lines[k] = <<block_marker_end>>}
         IN  IF Head(lines) = <<block_marker_start>> /\ ends # {}
             THEN LET k == CHOOSE i \in ends : \A j \in ends : i <= j
                  IN  OutsideExactRegion(SubSeq(lines, k + 1, Len(lines)))
             ELSE IF Head(lines) \in {<<block_marker_start>>,
                                     <<block_marker_end>>}
             THEN OutsideExactRegion(Tail(lines))
             ELSE <<Head(lines)>> \o OutsideExactRegion(Tail(lines))

\* C24: _add_hosts_entries and _remove_hosts_entries keep every line of the
\* file outside the marked region, in order, for every content of the
\* file: what they remove is the exact marker lines and the lines between
\* a start marker line and its end marker line, and nothing else.  (The
\* lines are compared joined, so that a file without any line and a file of
\* one empty line count as the same.)
C24_LinesOutsideRegionKept ==
    \A i \in 1..Len(log) :
        log[i].ok =>
          LET outside == OutsideExactRegion(splitlines(read_text(log[i].pre)))
              after   == splitlines(log[i].post)
          IN  IF log[i].fn = "remove"
              THEN join(after) = join(outside)
              ELSE /\ Len(after) >= Len(outside)
                   /\ SubSeq(after, 1, Len(outside)) = outside

(***************************************************************************)
(* Properties of the lifecycle                                             *)
(***************************************************************************)
\* no invocation is running, and the one that ended last ran cmd
Ended(cmd) == Idle /\ hist # <<>> /\ hist[1].cmd = cmd

\* the invocation that ended last
Last == proc[hist[1].who]

\* the invocation that ended last got as far as calling block()
LastCalledBlock ==
    Ended("block")
        /\ Last.result \notin {"SystemError", "NoDomains", "ValueError"}

\* the invocation that ended last got as far as calling unblock()
LastCalledUnblock == Ended("unlock") /\ Last.result # "SystemError"

\* the numbers of the lines among ls that contain marker m
MarkerLines(ls, m) == {n \in 1..Len(ls) : m \in Toks(ls[n])}

\* the content holds one start marker line and, after it, one end marker
\* line, and no other marker
HasOneRegion(content) ==
    /\ Count(content, block_marker_start) = 1
    /\ Count(content, block_marker_end) = 1
    /\ LET ls == splitlines(content)
       IN  \E i \in MarkerLines(ls, block_marker_start),
              j \in MarkerLines(ls, block_marker_end) :
             i < j /\ ls[i] = <<block_marker_start>>
                   /\ ls[j] = <<block_marker_end>>

\* the lines between the two marker lines of a content that HasOneRegion
RegionBody(content) ==
    LET ls == splitlines(content)
        i  == CHOOSE n \in MarkerLines(ls, block_marker_start) : TRUE
        j  == CHOOSE n \in MarkerLines(ls, block_marker_end) : TRUE
    IN  SubSeq(ls, i + 1, j - 1)

\* body is, for the domains of the set in strictly ascending order, the
\* IPv4 line of the domain followed by its IPv6 line
SortedPairs(body, domains) ==
    /\ Len(body) = 2 * Cardinality(domains)
    /\ \A k \in 1..Cardinality(domains) :
         \E d \in domains :
           /\ body[2 * k - 1] = <<"127.0.0.1", " ">> \o d
           /\ body[2 * k] = <<"::1", " ">> \o d
           /\ k < Cardinality(domains) =>
                \E d2 \in domains :
                  /\ body[2 * k + 1] = <<"127.0.0.1", " ">> \o d2
                  /\ StrLess(d, d2)

\* C3: after a block() that returned, the override file holds one marked
\* region whose body is, for each domain of the expanded set in ascending
\* order, the line '127.0.0.1 <domain>' followed by '::1 <domain>' (four
\* lines for the one domain "a"), the side-car holds the start of the block
\* plus the duration, where the start lies between the start and the end of
\* the invocation, and the immutable flag is set.
C3_BlockPostcondition ==
    (Ended("block") /\ Last.result = "ok")
    => /\ HasOneRegion(hosts)
       /\ LET body == RegionBody(hosts)
          IN  /\ SortedPairs(body, expand_domains(Last.raw))
              /\ Last.raw = {<<"a">>} =>
                   body = << <<"127.0.0.1", " ", "a">>,
                             <<"::1", " ", "a">>,
                             <<"127.0.0.1", " ", "w", "w", "w", ".", "a">>,
                             <<"::1", " ", "w", "w", "w", ".", "a">> >>
       /\ Len(sidecar) = 1
       /\ Last.pre.now <= sidecar[1] - Last.dur
       /\ sidecar[1] - Last.dur <= now
       /\ immutable

\* C3 witness: block({"a"}, 30 seconds) has returned
C3_Witness ==
    /\ Ended("block") /\ Last.result = "ok"
    /\ Last.raw = {<<"a">>} /\ Last.dur = 30

\* a block is in force and its deadline has not come
BlockedBeforeDeadline ==
    /\ is_active(hosts) /\ immutable
    /\ sidecar # <<>> /\ now < sidecar[1]

\* C1: while a block is in force and now < unlockAt, no step of
\* 'blocker.py --unlock' run by the operating user removes the region or
\* clears the immutable flag.
C1_NoManualUnlockBeforeDeadline ==
    [][ ( /\ BlockedBeforeDeadline
          /\ proc["cli"].cmd = "unlock"
          /\ proc'["cli"] # proc["cli"] )
        => (is_active(hosts') /\ immutable') ]_vars

\* the region of the call of block() that ended last is in the file
LastRegionWritten ==
    /\ HasOneRegion(hosts)
    /\ Toks(RegionBody(hosts)) = MappingLines(expand_domains(Last.raw))

\* C2 as first stated: whenever a call of block() has ended, however it
\* ended, and the file is locked, the file holds the region of this call.
C2_LockedImpliesRegionOfThisCall ==
    (LastCalledBlock /\ immutable) => LastRegionWritten

\* the invocation of process p is running, or is the one that ended last
Current(p) ==
    proc[p].pc # "idle" \/ (Idle /\ hist # <<>> /\ hist[1].who = p)

\* process p is in block(), or was when its invocation ended
InBlock(p) ==
    /\ proc[p].cmd = "block"
    /\ proc[p].pc \notin {"idle", "main"}
         \/ proc[p].result \notin {"SystemError", "NoDomains", "ValueError"}

\* C2, amended: in block() the file is locked only once the region of this
\* call is in the file, the unlock time is saved and, where a scheduler is
\* installed, an unlock job is registered; and a call of block()
\* never ends with the file locked and without the region of this call,
\* unless the file was already locked and the call could not unlock it (no
\* privilege, or chattr -i failed and the write raised PermissionError):
\* then the call leaves the file and the flag as it found them.
C2_LockAfterWriteOrUntouched ==
    \A p \in Procs :
        (Current(p) /\ InBlock(p) /\ immutable)
        => \/ /\ HasOneRegion(hosts)
              /\ Toks(RegionBody(hosts))
                   = MappingLines(expand_domains(proc[p].raw))
              /\ sidecar = <<proc[p].unlock_time>>
              /\ (host.systemd \/ host.at) => tickets # {}
              /\ proc[p].pc \in {"idle", "b_stop", "b_start"}
           \/ /\ proc[p].pre.immutable
              /\ hosts = proc[p].pre.hosts
              /\ proc[p].pc \in {"b_euid", "b_flag", "b_read", "b_write"}
                   \/ (proc[p].pc = "idle"
                         /\ proc[p].result = "PermissionError")

\* C2 witness: a privileged block() started on a locked file, chattr -i
\* failed, and the call ended with the file locked as before
C2_Witness ==
    /\ LastCalledBlock /\ immutable
    /\ Last.euid = 0 /\ Last.result = "PermissionError"
    /\ ~LastRegionWritten

\* the machine is in the UNBLOCKED state in snapshot s
Unblocked(s) ==
    /\ NoMarker(s.hosts) /\ ~s.immutable /\ s.sidecar = <<>>
    /\ ~s.responder /\ s.iptables = 0

\* C7: a privileged unblock() started in the UNBLOCKED state returns and
\* leaves the file content, the immutable flag and the side-car as they
\* were; and a second unblock() right after an unblock() that returned
\* changes nothing.
C7_UnblockWhenUnblockedIsNoOp ==
    /\ (LastCalledUnblock /\ Last.euid = 0 /\ Unblocked(Last.pre))
       => /\ Last.result = "ok"
          /\ hosts = Last.pre.hosts
          /\ immutable = Last.pre.immutable
          /\ sidecar = Last.pre.sidecar
    /\ ( /\ Ended("unlock") /\ Last.result = "ok" /\ Len(hist) = 2
         /\ hist[2].cmd = "unlock" /\ hist[2].result = "ok" )
       => [Snapshot EXCEPT !.now = 0] = [Last.pre EXCEPT !.now = 0]

\* C8: after a block() that returned and then an unblock() that returned,
\* the file holds the content it had before the block, the immutable flag
\* is clear, the side-car is gone and the responder is stopped.
C8_UnblockRestoresPreBlockState ==
    ( /\ Ended("unlock") /\ Last.result = "ok" /\ Len(hist) = 2
      /\ hist[2].cmd = "block" /\ hist[2].result = "ok" )
    => /\ hosts = hist[2].hosts
       /\ ~immutable
       /\ sidecar = <<>>
       /\ ~responder

\* C9: a step of block() or unblock() taken without root privilege ends the
\* invocation with PermissionError and changes nothing on the machine.
C9_NoPrivilegeNoEffect ==
    [][ \A p \in Procs :
          ( /\ proc[p].pc \in {"b_euid", "u_euid"}
            /\ proc[p].euid # 0
            /\ proc'[p] # proc[p] )
          => /\ proc'[p].pc = "idle"
             /\ proc'[p].result = "PermissionError"
             /\ Snapshot' = Snapshot ]_vars

\* C9 witness: 'blocker.py --unlock' was run by an ordinary user while the
\* block was in force, and has ended
C9_Witness ==
    /\ LastCalledUnblock /\ Last.euid # 0
    /\ is_active(hosts) /\ immutable

\* the machine lacks chattr, or lacks both systemd-run and at
LacksMechanism == ~host.chattr \/ (~host.systemd /\ ~host.at)

\* C10: on a machine that lacks the immutable-flag tool or the scheduling
\* tools, a privileged block() fails with the platform error and leaves the
\* file, the side-car, the tickets and the responder as they were.
C10_PlatformErrorBeforeMutation ==
    ( /\ Ended("block") /\ Last.euid = 0
      /\ Last.result \notin {"NoDomains", "ValueError"}
      /\ host.system = "Linux" /\ LacksMechanism )
    => /\ Last.result = "SystemError"
       /\ hosts = Last.pre.hosts
       /\ sidecar = Last.pre.sidecar
       /\ tickets = Last.pre.tickets
       /\ responder = Last.pre.responder

\* the invocation of p is past _schedule_unlock and no job was registered:
\* systemd-run and at have both failed
SchedulingFailed(p) ==
    /\ proc[p].pc \in {"b_lock", "b_stop", "b_start"}
         \/ (proc[p].pc = "idle" /\ proc[p].result # "PermissionError")
    /\ tickets = proc[p].pre.tickets

\* C11: when systemd-run and at have both failed, block() goes on: the
\* region of this call is in the file and the unlock time is saved when the
\* lock step is reached, and block() ends with the file locked; it ends with
\* an error only when the lock step itself fails (chattr missing or exiting
\* with an error).
C11_SchedulingFailureDoesNotAbort ==
    \A p \in Procs :
        (Current(p) /\ InBlock(p) /\ SchedulingFailed(p))
        => /\ HasOneRegion(hosts)
           /\ Toks(RegionBody(hosts))
                = MappingLines(expand_domains(proc[p].raw))
           /\ sidecar = <<proc[p].unlock_time>>
           /\ proc[p].pc \in {"b_stop", "b_start"} => immutable
           /\ proc[p].pc = "idle" =>
                \/ proc[p].result = "ok" /\ immutable
                \/ proc[p].result = "CalledProcessError" /\ host.chattr
                \/ proc[p].result = "FileNotFoundError" /\ ~host.chattr

\* C11 witness: on a machine without systemd-run and without at, block()
\* has returned with the file locked and no job registered
C11_Witness ==
    /\ Ended("block") /\ Last.result = "ok"
    /\ ~host.systemd /\ ~host.at
    /\ tickets = {} /\ immutable /\ is_active(hosts)

\* C12: a privileged unblock() runs all of its steps whatever a step
\* reports: it returns, and its last step has deleted the side-car.
C12_UnblockRunsAllSteps ==
    (LastCalledUnblock /\ Last.euid = 0)
    => /\ Last.result = "ok"
       /\ sidecar = <<>>

\* C18: at most one scheduled unlock job is registered at any time.
C18_AtMostOneTicket == Cardinality(tickets) <= 1

\* C19: the step of BlockPageServer.start that launches the service never
\* makes block() fail, and where systemd is installed it finds no instance
\* running, because the instance of an earlier block() has been stopped,
\* and leaves the one it launches; so no second instance is ever launched
\* next to a running one.
C19_StartStopsFirstAndNeverRaises ==
    [][ \A p \in Procs :
          (proc[p].pc = "b_start" /\ proc'[p] # proc[p])
          => /\ proc'[p].pc = "idle" /\ proc'[p].result = "ok"
             /\ host.systemd => (~responder /\ responder')
             /\ ~host.systemd => (responder' = responder) ]_vars

\* C19 witness: a block() that serves the block page has returned, started
\* while the responder of an earlier block() was running
C19_Witness ==
    /\ Ended("block") /\ Last.result = "ok" /\ Last.serve
    /\ Last.pre.responder /\ responder

\* the invocation of p is past _schedule_unlock
Scheduled(p) ==
    proc[p].pc \in {"b_lock", "b_stop", "b_start"}
        \/ (proc[p].pc = "idle" /\ proc[p].result # "PermissionError")

\* C23: the job registered by a call of block() fires at the unlock time
\* the call has saved in the side-car, whether systemd-run or at has
\* registered it.
C23_JobFiresAtSavedUnlockTime ==
    \A p \in Procs :
        (Current(p) /\ InBlock(p) /\ Scheduled(p))
        => \A t \in tickets \ proc[p].pre.tickets :
               sidecar # <<>> /\ t.at = sidecar[1]

\* the statements of block() after _add_hosts_entries
AfterWrite == {"b_dns", "b_save", "b_sysd", "b_at", "b_lock", "b_stop",
               "b_start"}

\* C25: no step of block() after the region has been written changes the
\* file, whether the step works or fails and whether block() goes on or
\* ends with it: the file holds the region of this call after the step as
\* before it.
C25_NoRollbackAfterWrite ==
    [][ \A p \in Procs :
          (proc[p].pc \in AfterWrite /\ proc'[p] # proc[p])
          => /\ hosts' = hosts
             /\ HasOneRegion(hosts')
             /\ Toks(RegionBody(hosts')) = MappingLines(proc[p].domains) ]_vars

\* C25 witness: block() has ended with the error of chattr +i, after the
\* region was written: the region is in the file and the file is not locked
C25_Witness ==
    /\ Ended("block") /\ Last.result = "CalledProcessError"
    /\ ~immutable /\ LastRegionWritten
    /\ hosts # Last.pre.hosts

\* the last two invocations were calls of block() that returned, with no
\* unblock() between them, and the second saved the later unlock time
TwoBlocksSecondLater ==
    /\ Len(hist) = 2
    /\ hist[1].cmd = "block" /\ hist[1].result = "ok"
    /\ hist[2].cmd = "block" /\ hist[2].result = "ok"
    /\ hist[2].unlock_time < hist[1].unlock_time
    /\ sidecar = <<hist[1].unlock_time>>

\* C26: after two calls of block() in a row, the second with the later
\* deadline, no scheduled unblock() runs before the unlock time the second
\* call has saved in the side-car: until then the region is in the file
\* and the file is locked.
C26_BlockedUntilLatestDeadline ==
    (TwoBlocksSecondLater /\ proc["cli"].pc = "idle" /\ now < sidecar[1])
    => /\ proc["job"].pc = "idle"
       /\ is_active(hosts) /\ immutable

\* the two consistent states of the machine
FullyBlocked == is_active(hosts) /\ immutable /\ sidecar # <<>>

FullyUnblocked == ~is_active(hosts) /\ ~immutable /\ sidecar = <<>>

\* C27: when a block() of the operating user and an unblock() of a
\* scheduled job have both returned, however their statements were
\* interleaved, the machine is fully blocked (region, lock and side-car) or
\* fully unblocked (no region, no lock, no side-car).
C27_RaceEndsConsistent ==
    ( /\ Idle
      /\ proc["cli"].cmd = "block" /\ proc["cli"].result = "ok"
      /\ proc["job"].cmd = "unlock" /\ proc["job"].result = "ok" )
    => (FullyBlocked \/ FullyUnblocked)

(***************************************************************************)
(* Properties of the entry point                                           *)
(***************************************************************************)
\* the duration string the entry point was given
EntryTime == log[1].time

\* digits, an optional decimal part, an optional unit s, m, h or d
StatedGrammar(t) ==
    \E n \in 1..Len(t) :
        /\ IsNumber(SubSeq(t, 1, n))
        /\ \/ n = Len(t)
           \/ n + 1 = Len(t) /\ t[Len(t)] \in {"s", "m", "h", "d"}

\* the same with the unit in either case and one final newline allowed
AcceptedGrammar(t) ==
    \E n \in 1..Len(t), u \in {0, 1}, e \in {0, 1} :
        /\ n + u + e = Len(t)
        /\ IsNumber(SubSeq(t, 1, n))
        /\ u = 1 => t[n + 1] \in {"s", "m", "h", "d", "S", "M", "H", "D"}
        /\ e = 1 => t[Len(t)] = NL

\* the invocation ended with ValueError and the machine is as it was
RejectedBeforeMutation ==
    /\ proc["cli"].pc = "idle" /\ proc["cli"].result = "ValueError"
    /\ Snapshot = proc["cli"].pre

C14_ExpandIdempotent ==
    \A i \in 2..Len(log) : log[i].post = log[i - 1].post

\* C14 witness: the expander was applied twice, the first time to an upper
\* case name and a name that carries the www. prefix
C14_Witness ==
    /\ Len(log) = 2
    /\ log[1].domains = {<<"B">>, WwwPrefix \o <<"a">>}

\* the string is not empty, has no white space at either end and no upper
\* case letter
IsNormal(d) ==
    /\ d # <<>>
    /\ Head(d) \notin Whitespace /\ d[Len(d)] \notin Whitespace
    /\ \A i \in 1..Len(d) : LowerChar(d[i]) = d[i]

\* C15 as first stated: every member of D is a member of expand(D).
C15_MembersAppear ==
    \A i \in 1..Len(log) : log[i].domains \subseteq log[i].post

\* C15, amended: for every member d of D, the trimmed and lower-cased d is a
\* member of expand(D) unless it is empty, and d itself is a member exactly
\* when it is not empty, has no white space at either end and no upper
\* case letter.
C15_NormalisedMembersAppear ==
    \A i \in 1..Len(log) :
        \A d \in log[i].domains :
            /\ lower(strip(d)) # <<>> => lower(strip(d)) \in log[i].post
            /\ d \in log[i].post <=> IsNormal(d)

\* C15 witness: the expander was applied to a set that holds an upper case
\* name and a name with white space around it
C15_Witness ==
    /\ log # <<>>
    /\ log[1].domains = {<<"B">>, <<SP, "a", SP>>}
    /\ log[1].post = {<<"b">>, <<"a">>,
                       WwwPrefix \o <<"b">>, WwwPrefix \o <<"a">>}

(***************************************************************************)
(* Properties of the responder                                             *)
(***************************************************************************)
\* the connections that have been answered
Answered ==
    {i \in 1..Len(server.conns) : server.conns[i].response # <<>>}

\* response r carries header name with the part value
HasHeader(r, name, value) ==
    /\ name \in DOMAIN r.headers
    /\ \E k \in 1..Len(r.headers[name]) : r.headers[name][k] = value

\* C16: every request, whatever its method and path, is answered with
\* status 200, the headers Cache-Control: no-store and Connection: close,
\* and the static page as body (no body for HEAD).
C16_EveryRequestGetsThePage ==
    \A i \in Answered :
        LET req == server.conns[i].request[1]
            r   == server.conns[i].response[1]
        IN  /\ r.status = 200
            /\ HasHeader(r, "Cache-Control", "no-store")
            /\ HasHeader(r, "Connection", "close")
            /\ r.body = IF req.method = "HEAD" THEN "" ELSE Page

\* C17: the answer to a HEAD request has the status and the headers of the
\* answer to a GET request for the same path, and an empty body.
C17_HeadAnswersLikeGet ==
    \A i \in Answered :
        LET req == server.conns[i].request[1]
            r   == server.conns[i].response[1]
        IN  req.method = "HEAD" =>
              /\ r.status = Respond("GET", req.path).status
              /\ r.headers = Respond("GET", req.path).headers
              /\ HasHeader(r, "Cache-Control", "no-store")
              /\ r.body = ""

\* C20: a connection that has been accepted never keeps its listener from
\* accepting the next one: while a connection waits to be accepted, the
\* listener thread is in its accept loop.
C20_AcceptLoopNeverHeld ==
    \A l \in Listeners :
        (server.main = "running" /\ Queued(l) # {})
        => server.listener[l] = "serving"

\* the other listener
Other(l) == IF l = "http" THEN "https" ELSE "http"

\* the messages that report why listener l does not run
FailureMessages(l) ==
    {BindMessage(l, r) : r \in {"PermissionError", "OSError"}}
        \cup (IF l = "https" THEN {BindMessage(l, "SSLError"), Skipping}
              ELSE {})

====
